---------------------------- MODULE Spec2Model ----------------------------
(***************************************************************************)
(* Model of server.py: the smoothing / hysteresis engine (class Agent),    *)
(* the /data handler that drives it, the background flush + offline        *)
(* watchdog, and the two segment reconstructions (get_daily_work_idle and  *)
(* handle_report).                                                         *)
(*                                                                         *)
(* Conventions.                                                            *)
(*  - Speeds are Python floats in the code.  Here a speed is an exact      *)
(*    rational [n, d] in lowest terms; for the packet kinds of this model  *)
(*    the float comparisons with V_START / V_STOP agree with the exact     *)
(*    ones.  Thresholds are kept in tenths (V_START 0.5 is 5).             *)
(*  - Timestamps are epoch seconds below 1e12, so the millisecond          *)
(*    conversion of ingest (server.py:150) is never taken.                 *)
(*  - The write-only table `pulses` (server.py:597) is not modelled:       *)
(*    nothing in the program reads it.                                     *)
(*  - Each handler is one atomic action.                                   *)
(***************************************************************************)
EXTENDS Integers, Sequences, FiniteSets, TLC

VARIABLES
    now,          \* int(time.time()): the wall clock, in seconds
    settings,     \* the settings dict (config.json)
    lines,        \* Agent.lines: line id -> runtime state
    minute_map,   \* Agent.minute_map: <<line id, minute>> -> [sum, count]
    status,       \* table status: line id -> row
    status_log,   \* table status_log, per line, in insertion order
    minute_stats, \* table minute_stats: <<line id, minute>> -> speed
    ret,          \* what the last handler returned
    holdRun,      \* history: per line, the current unbroken run of ingests
                  \* that satisfy the threshold condition of the line's state
    sent,         \* history: the number of /data requests handled so far
    rq,           \* the reconstruction in progress (chart / report request)
    threads,      \* the lock of the agent and the threads that call it
    samples       \* history: <<line id, minute>> -> [sum, count] of all the
                  \* smoothed speeds the /data requests recorded for the minute

vars == <<now, settings, lines, minute_map, status, status_log, minute_stats,
          ret, holdRun, sent, rq, threads, samples>>

engineVars == <<now, settings, lines, minute_map, status, status_log,
                minute_stats, ret, holdRun, sent, threads, samples>>

-----------------------------------------------------------------------------
(* Bounds of the model *)

\* at most this many /data requests in one behaviour
MaxPackets == 3

LineIds == {"line1", "line2"}
\* the packets a line sends: <<pulses, duration in ms>>
PacketKinds == {<<1, 60000>>, <<0, 180000>>}
\* the instants at which the wall clock is observed
Clock == {1, 30, 31, 91}
\* timestamps a packet may carry explicitly (a packet without one gets `now`)
PacketTs == {0}

-----------------------------------------------------------------------------
(* Rational numbers for speeds *)

RECURSIVE GCD(_, _)
GCD(a, b) == IF b = 0 THEN a ELSE GCD(b, a % b)

Abs(x) == IF x < 0 THEN -x ELSE x

Rat(n, d) ==
    LET g == GCD(Abs(n), d)
    IN  IF n = 0 THEN [n |-> 0, d |-> 1] ELSE [n |-> n \div g, d |-> d \div g]

Zero == [n |-> 0, d |-> 1]

RatAdd(a, b) == Rat(a.n * b.d + b.n * a.d, a.d * b.d)

\* a / k for an integer k > 0
RatDiv(a, k) == Rat(a.n, a.d * k)

\* speed >= tenths / 10
GeTenths(sp, tenths) == 10 * sp.n >= tenths * sp.d

\* speed <= tenths / 10
LeTenths(sp, tenths) == 10 * sp.n <= tenths * sp.d

-----------------------------------------------------------------------------
(* Settings *)

DefaultSettings ==
    [ windowSec      |-> 60,
      V_START        |-> 5,
      V_STOP         |-> 3,
      delayStart     |-> 30,
      delayStop      |-> 30,
      offlineTimeout |-> 60,
      products       |-> [l \in LineIds |-> ""] ]

\* a second configuration: a line starts on its first fast packet
QuickStartSettings == [DefaultSettings EXCEPT !.delayStart = 0]

Configs == {DefaultSettings, QuickStartSettings}

-----------------------------------------------------------------------------
(* Agent.ingest *)

NewLine(ts) ==
    [ messages      |-> << >>,
      lastPacket    |-> ts,
      lastState     |-> 0,
      holdStart     |-> 0,
      holdStop      |-> 0,
      smoothedSpeed |-> Zero ]

\* a pruning that trusts the arrival order: it drops old packets from the
\* front of the window and stops at the first one that is young enough
RECURSIVE Prune_Monotone(_, _)
Prune_Monotone(msgs, cutoff) ==
    IF msgs # << >> /\ Head(msgs).ts < cutoff
    THEN Prune_Monotone(Tail(msgs), cutoff)
    ELSE msgs

\* [m for m in messages if m['ts'] >= cutoff]
Prune(msgs, cutoff) == SelectSeq(msgs, LAMBDA m : m.ts >= cutoff)

RECURSIVE SumField(_, _)
SumField(msgs, f) ==
    IF msgs = << >> THEN 0 ELSE Head(msgs)[f] + SumField(Tail(msgs), f)

\* a speed taken from the newest packet alone
Smoothed_LastPacket(msgs) ==
    IF msgs = << >> \/ msgs[Len(msgs)].duration <= 0 THEN Zero
    ELSE Rat(60000 * msgs[Len(msgs)].pulses, msgs[Len(msgs)].duration)

\* (total_pulses / (total_duration / 1000.0)) * 60.0, or 0.0
Smoothed(msgs) ==
    LET total_pulses   == SumField(msgs, "pulses")
        total_duration == SumField(msgs, "duration")
    IN  IF total_duration > 0
        THEN Rat(60000 * total_pulses, total_duration)
        ELSE Zero

\* `if not line['holdStart']: line['holdStart'] = ts`
SetIfUnset(hold, ts) == IF hold = 0 THEN ts ELSE hold

\* the delay has elapsed: ts - hold >= delay
Elapsed(ts, hold, delay) == ts - hold >= delay

\* a hold timer that carries on through a packet that breaks its condition
ResetHold_Keep(hold) == hold

\* the condition broke: `line['holdStart'] = 0` (or holdStop)
ResetHold(hold) == 0

\* The state detection of ingest (server.py:184-204): the new state and the
\* two hold timers it leaves.
Detect(line, smoothed, ts, cfg) ==
    IF line.lastState = 1
    THEN IF LeTenths(smoothed, cfg.V_STOP)
         THEN LET hs == SetIfUnset(line.holdStop, ts)
              IN  IF Elapsed(ts, hs, cfg.delayStop)
                  THEN [new_state |-> 0, holdStart |-> 0, holdStop |-> 0]
                  ELSE [new_state |-> 1, holdStart |-> line.holdStart, holdStop |-> hs]
         ELSE [new_state |-> 1, holdStart |-> line.holdStart,
               holdStop |-> ResetHold(line.holdStop)]
    ELSE IF GeTenths(smoothed, cfg.V_START)
         THEN LET hs == SetIfUnset(line.holdStart, ts)
              IN  IF Elapsed(ts, hs, cfg.delayStart)
                  THEN [new_state |-> 1, holdStart |-> 0, holdStop |-> 0]
                  ELSE [new_state |-> 0, holdStart |-> hs, holdStop |-> line.holdStop]
         ELSE [new_state |-> 0, holdStart |-> ResetHold(line.holdStart),
               holdStop |-> line.holdStop]

\* a change reported as long as the line runs
StateChanged_Level(new_state, lastState) == new_state = 1

\* state_changed = new_state != line['lastState']
StateChanged(new_state, lastState) == new_state # lastState

\* ingest(line_id, pulses, duration_ms, ts) on the line `old` (a fresh line
\* when the id is new): the line it leaves and the triple it returns.
Ingest(old, pulses, duration_ms, ts, cfg) ==
    LET appended == Append(old.messages,
                           [pulses |-> pulses, duration |-> duration_ms, ts |-> ts])
        cutoff   == ts - cfg.windowSec
        msgs     == Prune(appended, cutoff)
        smoothed == Smoothed(msgs)
        det      == Detect(old, smoothed, ts, cfg)
    IN  [ line |-> [ messages      |-> msgs,
                     lastPacket    |-> ts,
                     lastState     |-> det.new_state,
                     holdStart     |-> det.holdStart,
                     holdStop      |-> det.holdStop,
                     smoothedSpeed |-> smoothed ],
          smoothed      |-> smoothed,
          state_changed |-> StateChanged(det.new_state, old.lastState),
          new_state     |-> det.new_state ]

MinuteOf(ts) == (ts \div 60) * 60

\* an aggregation that keeps only the latest sample of a minute
Record_Latest(mm, line_id, ts, smoothed) ==
    LET key == <<line_id, MinuteOf(ts)>>
    IN  [k \in DOMAIN mm \cup {key} |->
            IF k = key THEN [sum |-> smoothed, count |-> 1] ELSE mm[k]]

\* minute aggregation of ingest (server.py:207-215)
Record(mm, line_id, ts, smoothed) ==
    LET key   == <<line_id, MinuteOf(ts)>>
        entry == IF key \in DOMAIN mm THEN mm[key] ELSE [sum |-> Zero, count |-> 0]
        upd   == [sum |-> RatAdd(entry.sum, smoothed), count |-> entry.count + 1]
    IN  [k \in DOMAIN mm \cup {key} |-> IF k = key THEN upd ELSE mm[k]]

-----------------------------------------------------------------------------
(* Agent.flush_minutes and Agent.handle_offline *)

\* a flush that also takes the buckets of the current minute
Matured_Inclusive(mm, t) == {k \in DOMAIN mm : k[2] <= MinuteOf(t)}

\* the buckets flush_minutes pops at wall-clock time t
Matured(mm, t) == {k \in DOMAIN mm : k[2] < MinuteOf(t)}

\* avg = sum / count if count > 0 else 0.0
Average(entry) == IF entry.count > 0 THEN RatDiv(entry.sum, entry.count) ELSE Zero

\* a flush that persists the closed buckets and leaves them in the map
FlushMap_Keep(mm, t) == mm

\* the bucket map flush_minutes leaves
FlushMap(mm, t) == [k \in DOMAIN mm \ Matured(mm, t) |-> mm[k]]

\* INSERT OR REPLACE INTO minute_stats for every popped bucket
FlushStats(ms, mm, t) ==
    [k \in DOMAIN ms \cup Matured(mm, t) |->
        IF k \in Matured(mm, t) THEN Average(mm[k]) ELSE ms[k]]

\* a handle_offline that also forgets when the line sent its last packet
HandleOffline_Forget(line) ==
    [ line    |-> [line EXCEPT !.messages = << >>, !.smoothedSpeed = Zero,
                               !.holdStart = 0, !.holdStop = 0, !.lastState = 0,
                               !.lastPacket = 0],
      changed |-> line.lastState = 1 ]

\* a handle_offline that stops the line and leaves its hold timers alone
HandleOffline_KeepTimers(line) ==
    [ line    |-> [line EXCEPT !.messages = << >>, !.smoothedSpeed = Zero,
                               !.lastState = 0],
      changed |-> line.lastState = 1 ]

\* a handle_offline that reports every line it resets
HandleOffline_AlwaysChanged(line) ==
    [ line    |-> [line EXCEPT !.messages = << >>, !.smoothedSpeed = Zero,
                               !.holdStart = 0, !.holdStop = 0, !.lastState = 0],
      changed |-> TRUE ]

\* handle_offline on a known line: the line it leaves and what it returns
HandleOffline(line) ==
    [ line    |-> [line EXCEPT !.messages = << >>, !.smoothedSpeed = Zero,
                               !.holdStart = 0, !.holdStop = 0, !.lastState = 0],
      changed |-> line.lastState = 1 ]

\* a watchdog that fires at the timeout already
TimedOut_Inclusive(row, t, cfg) ==
    row.lastPacketTime # 0 /\ t - row.lastPacketTime >= cfg.offlineTimeout

\* the test of background_worker on a row of table status (server.py:960)
TimedOut(row, t, cfg) ==
    row.lastPacketTime # 0 /\ t - row.lastPacketTime > cfg.offlineTimeout

\* the lines for which the sweep calls handle_offline
Swept == {l \in DOMAIN status : TimedOut(status[l], now, settings)}

\* the lines for which handle_offline returns True
Forced == {l \in Swept : l \in DOMAIN lines /\ HandleOffline(lines[l]).changed}

-----------------------------------------------------------------------------
(* History of the hold runs, kept for the statements about them *)

NoRun == [on |-> FALSE, t0 |-> 0, afterGap |-> FALSE, broken |-> FALSE]

\* The run of a line after an ingest at ts: `holds` says whether the speed met
\* the threshold of the state the line was in, `changed` whether it switched.
NextRun(run, holds, changed, ts) ==
    IF changed THEN NoRun
    ELSE IF holds
         THEN IF run.on THEN run
              ELSE [on |-> TRUE, t0 |-> ts, afterGap |-> run.broken, broken |-> FALSE]
         ELSE [on |-> FALSE, t0 |-> 0, afterGap |-> FALSE, broken |-> run.on \/ run.broken]

\* the threshold condition of the state the line is in
Holds(lastState, smoothed, cfg) ==
    IF lastState = 1 THEN LeTenths(smoothed, cfg.V_STOP)
                     ELSE GeTenths(smoothed, cfg.V_START)

-----------------------------------------------------------------------------
(* The handlers *)

NoRet == [op |-> "none"]

LineOf(l, ts) == IF l \in DOMAIN lines THEN lines[l] ELSE NewLine(ts)

\* POST /data (handle_data) with a valid payload; `given` tells whether the
\* payload carries a timestamp
HandleData(l, p, dur, given, tsv) ==
    LET ts  == IF given THEN tsv ELSE now
        old == LineOf(l, ts)
        r   == Ingest(old, p, dur, ts, settings)
        now_sec == now
    IN  /\ dur > 0
        /\ sent < MaxPackets
        \* the lines are interchangeable: line2 is heard of only after line1
        /\ l = "line2" => "line1" \in DOMAIN lines
        /\ sent' = sent + 1
        /\ lines' = [x \in DOMAIN lines \cup {l} |-> IF x = l THEN r.line ELSE lines[x]]
        /\ minute_map' = Record(minute_map, l, ts, r.smoothed)
        /\ status' = [status EXCEPT ![l] =
               [ lastPacketTime |-> now_sec,
                 lastPulseTime  |-> IF p > 0 THEN now_sec ELSE @.lastPulseTime,
                 isRunning      |-> IF r.state_changed THEN r.new_state ELSE @.isRunning ]]
        /\ status_log' = [status_log EXCEPT ![l] =
               IF r.state_changed
               THEN Append(@, [timestamp |-> now_sec, isRunning |-> r.new_state,
                               productName |-> settings.products[l]])
               ELSE @]
        /\ ret' = [op |-> "data", line |-> l, ts |-> ts, smoothed |-> r.smoothed,
                   state_changed |-> r.state_changed, new_state |-> r.new_state]
        /\ holdRun' = [holdRun EXCEPT ![l] =
               NextRun(@, Holds(old.lastState, r.smoothed, settings), r.state_changed, ts)]
        /\ samples' = Record(samples, l, ts, r.smoothed)
        /\ UNCHANGED <<now, settings, minute_stats, rq, threads>>

\* one cycle of background_worker: flush_minutes, then the offline sweep
Background ==
    /\ minute_map' = FlushMap(minute_map, now)
    /\ minute_stats' = FlushStats(minute_stats, minute_map, now)
    /\ lines' = [l \in DOMAIN lines |->
           IF l \in Swept THEN HandleOffline(lines[l]).line ELSE lines[l]]
    /\ status' = [l \in DOMAIN status |->
           IF l \in Forced THEN [status[l] EXCEPT !.isRunning = 0] ELSE status[l]]
    /\ status_log' = [l \in DOMAIN status_log |->
           IF l \in Forced
           THEN Append(status_log[l], [timestamp |-> now, isRunning |-> 0,
                                       productName |-> settings.products[l]])
           ELSE status_log[l]]
    /\ ret' = [op |-> "background", flushed |-> Matured(minute_map, now),
               swept |-> Swept, changed |-> Forced,
               now_minute |-> MinuteOf(now),
               \* history: the cycle before this one ran in the same minute
               \* and no request was handled in between
               again |-> ret.op = "background" /\ ret.now_minute = MinuteOf(now)]
    /\ holdRun' = [l \in DOMAIN holdRun |->
           IF l \in Swept /\ l \in DOMAIN lines THEN NoRun ELSE holdRun[l]]
    /\ UNCHANGED <<now, settings, sent, rq, threads, samples>>

\* time passes
Tick ==
    /\ \E t \in Clock : t > now /\ now' = t
    /\ UNCHANGED <<settings, lines, minute_map, status, status_log, minute_stats,
                   ret, holdRun, sent, rq, threads, samples>>

Data ==
    \E l \in LineIds, k \in PacketKinds, given \in BOOLEAN, tsv \in PacketTs :
        HandleData(l, k[1], k[2], given, tsv)

NoRequest == [phase |-> "idle"]

\* no thread is followed step by step: every handler runs as one step
NoThreads == [lock |-> "free"]

Init ==
    /\ now = 1
    /\ settings \in Configs
    /\ lines = << >>
    /\ minute_map = << >>
    /\ status = [l \in LineIds |-> [isRunning |-> 0, lastPulseTime |-> 0, lastPacketTime |-> 0]]
    /\ status_log = [l \in LineIds |-> << >>]
    /\ minute_stats = << >>
    /\ ret = NoRet
    /\ holdRun = [l \in LineIds |-> NoRun]
    /\ sent = 0
    /\ rq = NoRequest
    /\ threads = NoThreads
    /\ samples = << >>

Next == Data \/ Background \/ Tick

Spec == Init /\ [][Next]_vars

\* The wall clock advances, and background_worker is a `while True` loop that
\* sleeps 15 s between cycles and swallows every exception (server.py:946-979):
\* a cycle that has something to do is eventually run.
SpecLive == Spec /\ WF_vars(Tick) /\ WF_vars(Background)

-----------------------------------------------------------------------------
(* A background cycle while the store refuses writes *)

\* One cycle of background_worker in which cur.execute raises in flush_minutes
\* (server.py:227): the first closed bucket the loop reaches has been popped
\* (server.py:224) and is not written; the exception leaves flush_minutes,
\* skips the sweep and is swallowed by `except Exception: pass`
\* (server.py:976).  Which closed bucket comes first depends on the insertion
\* order of the dict.
BackgroundFails ==
    /\ \E key \in Matured(minute_map, now) :
           /\ minute_map' = [k \in DOMAIN minute_map \ {key} |-> minute_map[k]]
           /\ ret' = [op |-> "background_failed", popped |-> key]
    /\ UNCHANGED <<now, settings, lines, status, status_log, minute_stats,
                   holdRun, sent, rq, threads, samples>>

\* the packets of line1
DataLine1 ==
    \E k \in PacketKinds, given \in BOOLEAN, tsv \in PacketTs :
        HandleData("line1", k[1], k[2], given, tsv)

FaultNext == DataLine1 \/ Background \/ BackgroundFails \/ Tick

SpecFault == Init /\ [][FaultNext]_vars

\* The wall clock advances and background_worker keeps cycling (server.py:
\* 946-979); the store may refuse a write now and then, and a cycle in which it
\* accepts them is eventually run.
SpecFaultLive == SpecFault /\ WF_vars(Tick) /\ WF_vars(Background)

-----------------------------------------------------------------------------
(* POST /settings/save *)

\* at most this many settings saves in one behaviour
MaxSaves == 2

IntFields == {"windowSec", "delayStart", "delayStop", "offlineTimeout"}
FloatFields == {"V_START", "V_STOP"}
Fields == IntFields \cup FloatFields

\* a number: float('inf'), or a finite value in tenths
Num(inf, tenths) == [inf |-> inf, tenths |-> IF inf THEN 0 ELSE tenths]

\* What a form can hold for a field: nothing, a text that is no number, or a
\* number: -1, 0, 2, 2.5 and Infinity (which json.loads reads as float('inf')).
Missing == [kind |-> "missing"]
Submitted ==
    {Missing, [kind |-> "text"]}
        \cup {[kind |-> "num", inf |-> FALSE, tenths |-> t] : t \in {-10, 0, 20, 25}}
        \cup {[kind |-> "num", inf |-> TRUE, tenths |-> 0]}

\* the stored +infinity of a float field: above every speed of the model
InfTenths == 10000

\* settings.get(field): the value a field has, as a number
Stored(f, cfg) ==
    IF f \in IntFields THEN Num(FALSE, 10 * cfg[f])
    ELSE IF cfg[f] = InfTenths THEN Num(TRUE, 0) ELSE Num(FALSE, cfg[f])

\* to_num(v, default): float(v) if that succeeds and is >= 0, else default
ToNum(v, default) ==
    IF v.kind = "num" /\ (v.inf \/ v.tenths >= 0) THEN Num(v.inf, v.tenths) ELSE default

\* int(n) of a finite n >= 0, in whole units
IntOf(n) == n.tenths \div 10

\* float(n), in tenths
FloatOf(n) == IF n.inf THEN InfTenths ELSE n.tenths

\* handle_settings_save with the settings password given.  int() of an
\* infinite number raises OverflowError before `settings = new_cfg`, so that
\* request saves nothing.
SaveSettings(data) ==
    LET n(f)    == ToNum(data[f], Stored(f, settings))
        raises  == \E f \in IntFields : n(f).inf
        new_cfg == [f \in DOMAIN settings |->
                       IF f \in IntFields THEN IntOf(n(f))
                       ELSE IF f \in FloatFields THEN FloatOf(n(f))
                       ELSE settings[f]]
    IN  /\ sent < MaxSaves
        /\ sent' = sent + 1
        /\ settings' = IF raises THEN settings ELSE new_cfg
        /\ ret' = [op |-> "settings_save", ok |-> ~raises]
        /\ UNCHANGED <<now, lines, minute_map, status, status_log, minute_stats,
                       holdRun, rq, threads, samples>>

\* the forms: at most two fields filled in
Forms ==
    {[f \in Fields |-> IF f = f1 THEN v1 ELSE IF f = f2 THEN v2 ELSE Missing] :
        f1 \in Fields, f2 \in IntFields, v1 \in Submitted, v2 \in Submitted}

Save == \E data \in Forms : SaveSettings(data)

SettingsNext == Save \/ DataLine1

SpecSettings == Init /\ [][SettingsNext]_vars

-----------------------------------------------------------------------------
(* Agent.ingest on arbitrary accepted packets of one line *)

\* what handle_data lets through: int(pulses) of any sign, dur > 0
\* (server.py:585-591)
AcceptedKinds == {<<1, 60000>>, <<2, 30000>>, <<-1, 60000>>}
\* explicit packet timestamps, sent in any order
AnyOrderTs == {0, 10, 70, 100}

Packet ==
    \E k \in AcceptedKinds, tsv \in AnyOrderTs :
        HandleData("line1", k[1], k[2], TRUE, tsv)

IngestNext == Packet

SpecIngest == Init /\ [][IngestNext]_vars

-----------------------------------------------------------------------------
(* Segment reconstruction: Agent.get_daily_work_idle and handle_report *)

\* every caller asks for 30 days
Days == 30
DaySec == 86400
\* segments shorter than this are merged
ShortSec == 60

\* at most this many rows in the log a chart request reads
MaxEvents == 4
\* at most this many rows in the log a report request reads
MaxReportEvents == 2

\* the timestamps of the rows of status_log
EventTimes == {0, 1000, 1030, 1090, 5000, 86400}
\* the wall clock at the time of the request
RequestTimes == {90000, 2595600}
\* productName of a row: NULL (a row older than the column), empty, or a name
NULL == "NULL"
Labels == {NULL, "", "A"}

\* SELECT ... WHERE timestamp >= from_ts AND timestamp <= to_ts ORDER BY timestamp
Fetch(log, from_ts, to_ts) ==
    SelectSeq(log, LAMBDA e : e.timestamp >= from_ts /\ e.timestamp <= to_ts)

\* SELECT ... WHERE timestamp < from_ts ORDER BY timestamp DESC LIMIT 1: the
\* rows the query may return (any row with the latest timestamp)
LastBefore(log, from_ts) ==
    LET before == {i \in 1..Len(log) : log[i].timestamp < from_ts}
    IN  {log[i] : i \in {j \in before :
                            \A k \in before : log[k].timestamp <= log[j].timestamp}}

\* initial_state = row['isRunning'] if row else 0
InitialStates(log, from_ts) ==
    IF LastBefore(log, from_ts) = {} THEN {0}
    ELSE {r.isRunning : r \in LastBefore(log, from_ts)}

\* [e for e in events if day_start <= e['timestamp'] < day_end]
DayEvents(events, day_start, day_end) ==
    SelectSeq(events, LAMBDA e : day_start <= e.timestamp /\ e.timestamp < day_end)

\* the loop over day_events of get_daily_work_idle (server.py:315-320)
RECURSIVE DailyScan(_, _, _, _)
DailyScan(evs, state, seg_start, segments) ==
    IF evs = << >> THEN [state |-> state, seg_start |-> seg_start, segments |-> segments]
    ELSE LET ev == Head(evs)
         IN  IF ev.isRunning # state
             THEN DailyScan(Tail(evs), ev.isRunning, ev.timestamp,
                            Append(segments, [start |-> seg_start, end |-> ev.timestamp,
                                              state |-> state]))
             ELSE DailyScan(Tail(evs), state, seg_start, segments)

\* a reconstruction that ends the segment in progress at the time of the call
DailySegments_UntilNow(day_events, prev_state, day_start, day_end) ==
    LET scan == DailyScan(day_events, prev_state, day_start, << >>)
        stop == IF day_start <= now /\ now < day_end THEN now ELSE day_end
    IN  [ segments |-> Append(scan.segments,
                              [start |-> scan.seg_start, end |-> stop, state |-> scan.state]),
          state    |-> scan.state ]

\* the segments of one day and the state carried to the next (server.py:312-322)
DailySegments(day_events, prev_state, day_start, day_end) ==
    LET sc == DailyScan(day_events, prev_state, day_start, << >>)
    IN  [ segments |-> Append(sc.segments, [start |-> sc.seg_start, end |-> day_end,
                                             state |-> sc.state]),
          state    |-> sc.state ]

\* a merge pass that also folds segments of exactly 60 seconds
IsShort_Inclusive(dur) == dur <= ShortSec

\* dur < 60
IsShort(dur) == dur < ShortSec

\* one step of the merge pass: a short segment takes the opposite state and
\* extends the last merged segment if that one has this state
MergeOne(merged, seg) ==
    LET dur == seg.end - seg.start
        opp == 1 - seg.state
    IN  IF IsShort(dur)
        THEN IF merged # << >> /\ merged[Len(merged)].state = opp
             THEN [merged EXCEPT ![Len(merged)].end = seg.end]
             ELSE Append(merged, [seg EXCEPT !.state = opp])
        ELSE Append(merged, seg)

RECURSIVE MergeFrom(_, _)
MergeFrom(merged, segments) ==
    IF segments = << >> THEN merged
    ELSE MergeFrom(MergeOne(merged, Head(segments)), Tail(segments))

\* a merge pass that drops the short segments
RECURSIVE MergeDaily_Drop(_)
MergeDaily_Drop(segments) ==
    IF segments = << >> THEN << >>
    ELSE IF IsShort(Head(segments).end - Head(segments).start)
         THEN MergeDaily_Drop(Tail(segments))
         ELSE <<Head(segments)>> \o MergeDaily_Drop(Tail(segments))

\* the merge pass of get_daily_work_idle (server.py:324-340)
MergeDaily(segments) == MergeFrom(<< >>, segments)

\* the merge pass of handle_report (server.py:831-848)
MergeReport(segments) == MergeFrom(<< >>, segments)

\* the seconds the segments spend in state st (server.py:341-348, 853-872)
RECURSIVE SecondsIn(_, _)
SecondsIn(segs, st) ==
    IF segs = << >> THEN 0
    ELSE (IF Head(segs).state = st THEN Head(segs).end - Head(segs).start ELSE 0)
         + SecondsIn(Tail(segs), st)

\* one iteration of the loop over days of get_daily_work_idle
DailyDay(events, prev_state, day_start) ==
    LET day_end == day_start + DaySec
        built   == DailySegments(DayEvents(events, day_start, day_end),
                                 prev_state, day_start, day_end)
        merged  == MergeDaily(built.segments)
    IN  [ day_start |-> day_start, day_end |-> day_end,
          segments  |-> built.segments, merged |-> merged,
          run_sec   |-> SecondsIn(merged, 1), down_sec |-> SecondsIn(merged, 0),
          state     |-> built.state ]

\* for d in range(days - 1, -1, -1): the days from d down to 0
RECURSIVE DailyDays(_, _, _, _)
DailyDays(events, prev_state, to_ts, d) ==
    IF d < 0 THEN << >>
    ELSE LET day == DailyDay(events, prev_state, ((to_ts - d * DaySec) \div DaySec) * DaySec)
         IN  <<day>> \o DailyDays(events, day.state, to_ts, d - 1)

\* get_daily_work_idle(line_id, days) at wall-clock time t on the rows `log`
\* of the line, the query for the state before the range having returned
\* initial_state.  The hours it returns are run_sec and down_sec of each day
\* divided by 3600 and rounded to one decimal.
GetDailyWorkIdle(log, t, days, initial_state) ==
    LET to_ts   == t
        from_ts == to_ts - days * DaySec
    IN  DailyDays(Fetch(log, from_ts, to_ts), initial_state, to_ts, days - 1)

\* `elif ev_prod:`
Truthy(label) == label # NULL /\ label # ""

\* the loop over day_events of handle_report (server.py:811-826)
RECURSIVE ReportScan(_, _, _, _, _)
ReportScan(evs, state, seg_start, prev_product, segments) ==
    IF evs = << >>
    THEN [state |-> state, seg_start |-> seg_start, prev_product |-> prev_product,
          segments |-> segments]
    ELSE LET ev     == Head(evs)
             closed == Append(segments, [start |-> seg_start, end |-> ev.timestamp,
                                         state |-> state, product |-> prev_product])
         IN  IF ev.isRunning # state
             THEN ReportScan(Tail(evs), ev.isRunning, ev.timestamp,
                             IF ev.productName # NULL THEN ev.productName ELSE prev_product,
                             closed)
             ELSE IF Truthy(ev.productName)
                  THEN ReportScan(Tail(evs), state, ev.timestamp, ev.productName, closed)
                  ELSE ReportScan(Tail(evs), state, seg_start, prev_product, segments)

\* one iteration of the loop over days of handle_report (server.py:804-890)
ReportDay(events, prev_state, prev_product, t, to_ts) ==
    LET day_start == t
        day_end   == IF t + DaySec < to_ts THEN t + DaySec ELSE to_ts
        sc        == ReportScan(DayEvents(events, day_start, day_end),
                                prev_state, day_start, prev_product, << >>)
        segments  == Append(sc.segments, [start |-> sc.seg_start, end |-> day_end,
                                          state |-> sc.state, product |-> sc.prev_product])
        merged    == MergeReport(segments)
    IN  [ day_start |-> day_start, day_end |-> day_end,
          segments  |-> segments, merged |-> merged,
          run_sec   |-> SecondsIn(merged, 1), down_sec |-> SecondsIn(merged, 0),
          state     |-> sc.state, product |-> sc.prev_product ]

\* while t < to_ts: ... t += 86400
RECURSIVE ReportDays(_, _, _, _, _)
ReportDays(events, prev_state, prev_product, t, to_ts) ==
    IF ~(t < to_ts) THEN << >>
    ELSE LET day == ReportDay(events, prev_state, prev_product, t, to_ts)
         IN  <<day>> \o ReportDays(events, day.state, day.product, t + DaySec, to_ts)

\* parse_date: `datetime` is not imported, so the lookup raises NameError
\* inside the try and the function returns None for every value
ParseDate(val) == NULL

\* prev_product: the label of the row before the range, or the configured one
InitialLabels(log, from_ts, configured) ==
    IF LastBefore(log, from_ts) = {} THEN {configured}
    ELSE {IF r.productName # NULL THEN r.productName ELSE configured :
              r \in LastBefore(log, from_ts)}

RECURSIVE SumOver(_, _)
SumOver(days, f) == IF days = << >> THEN 0 ELSE Head(days)[f] + SumOver(Tail(days), f)

\* the sheet of one line in handle_report at wall-clock time t: the days and
\* total_run, total_down of the summary row
HandleReport(log, t, initial, prev_product) ==
    LET to_ts   == t
        from_ts == to_ts - 30 * DaySec
        days    == ReportDays(Fetch(log, from_ts, to_ts), initial, prev_product,
                              from_ts - (from_ts % DaySec), to_ts)
    IN  [ days |-> days,
          total_run  |-> SumOver(days, "run_sec"),
          total_down |-> SumOver(days, "down_sec") ]

-----------------------------------------------------------------------------
(* Requests that reconstruct the history of one line *)

LastTime(log) == IF log = << >> THEN 0 ELSE log[Len(log)].timestamp

\* a row is added to status_log (by handle_data or the watchdog, at an
\* earlier time); a chart request does not read productName
AddEvent ==
    /\ rq.phase = "log"
    /\ Len(rq.log) < (IF rq.kind = "chart" THEN MaxEvents ELSE MaxReportEvents)
    /\ \E ts \in EventTimes, st \in {0, 1},
          label \in (IF rq.kind = "chart" THEN {""} ELSE Labels) :
           /\ ts >= LastTime(rq.log)
           /\ rq' = [rq EXCEPT !.log = Append(@, [timestamp |-> ts, isRunning |-> st,
                                                  productName |-> label])]
    /\ UNCHANGED engineVars

\* GET /chartdata: get_daily_work_idle(line_id, 30)
Chart ==
    /\ rq.phase = "log" /\ rq.kind = "chart"
    /\ \E t \in RequestTimes :
       \E initial \in InitialStates(rq.log, t - Days * DaySec) :
           rq' = [rq EXCEPT !.phase = "done", !.t = t, !.initial = initial,
                            !.days = GetDailyWorkIdle(rq.log, t, Days, initial)]
    /\ UNCHANGED engineVars

\* GET /report: the sheet of one line
Report ==
    /\ rq.phase = "log" /\ rq.kind = "report"
    /\ \E t \in RequestTimes :
       \E initial \in InitialStates(rq.log, t - 30 * DaySec),
          label \in InitialLabels(rq.log, t - 30 * DaySec, settings.products["line1"]) :
           LET r == HandleReport(rq.log, t, initial, label)
           IN  rq' = [rq EXCEPT !.phase = "done", !.t = t, !.initial = initial,
                                !.days = r.days, !.total_run = r.total_run,
                                !.total_down = r.total_down]
    /\ UNCHANGED engineVars

ReconInit ==
    /\ now = 1
    /\ settings = DefaultSettings
    /\ lines = << >>
    /\ minute_map = << >>
    /\ status = [l \in LineIds |-> [isRunning |-> 0, lastPulseTime |-> 0, lastPacketTime |-> 0]]
    /\ status_log = [l \in LineIds |-> << >>]
    /\ minute_stats = << >>
    /\ ret = NoRet
    /\ holdRun = [l \in LineIds |-> NoRun]
    /\ sent = 0
    /\ threads = NoThreads
    /\ samples = << >>
    /\ \E kind \in {"chart", "report"} :
           rq = [phase |-> "log", kind |-> kind, log |-> << >>, t |-> 0, initial |-> 0,
                 days |-> << >>, total_run |-> 0, total_down |-> 0]

ReconNext == AddEvent \/ Chart \/ Report

SpecRecon == ReconInit /\ [][ReconNext]_vars

-----------------------------------------------------------------------------
(* GET /chartdata while the engine runs *)

\* the packets of line1 that carry no timestamp
DataNow == \E k \in PacketKinds : HandleData("line1", k[1], k[2], FALSE, 0)

\* day_start of each of the `days` days of a call at time t (server.py:307-308)
DayStarts(t, days) == [i \in 1..days |-> ((t - (days - i) * DaySec) \div DaySec) * DaySec]

\* GET /chartdata for line1 on the rows the engine has logged so far.  The
\* request in rq is the latest one; `first` keeps what the one before it read
\* and returned, `sent` the number of /data requests handled before the call.
ChartLive ==
    /\ rq.phase = "idle" \/ (rq.phase = "done" /\ rq.run = 1)
    /\ \E initial \in InitialStates(status_log["line1"], now - Days * DaySec) :
           rq' = [ phase |-> "done", kind |-> "chart",
                   run   |-> IF rq.phase = "idle" THEN 1 ELSE 2,
                   log   |-> status_log["line1"], t |-> now, initial |-> initial,
                   days  |-> GetDailyWorkIdle(status_log["line1"], now, Days, initial),
                   total_run |-> 0, total_down |-> 0, sent |-> sent,
                   first |-> IF rq.phase = "idle" THEN NoRequest
                             ELSE [phase |-> "done", log |-> rq.log, t |-> rq.t,
                                   initial |-> rq.initial, days |-> rq.days,
                                   sent |-> rq.sent] ]
    /\ UNCHANGED engineVars

ChartNext == DataNow \/ Tick \/ ChartLive

SpecChart == Init /\ [][ChartNext]_vars

-----------------------------------------------------------------------------
(* The agent under concurrent callers *)

\* Two request threads, each handling one POST /data for line1, and the
\* background thread running one cycle, all within the same second.
Workers == {"w1", "w2"}
Threads == Workers \cup {"bg"}

NoCall == [op |-> "none"]

\* the agent's two maps
Maps(ls, mm) == [lines |-> ls, minute_map |-> mm]

\* a lock that lets every caller in
CanEnter_Always(lock) == TRUE

\* threading.Lock: `with self.lock` enters when nobody holds the lock
CanEnter(lock) == lock = "free"

\* a lock released on return only, not when the body raises
Unlock_OnReturn(lock, raised) == IF raised THEN lock ELSE "free"

\* leaving `with self.lock`: __exit__ releases on return and on an exception
Unlock(lock, raised) == "free"

\* What the body of a call makes of the maps it works on: ingest (server.py:
\* 152-216), flush_minutes (server.py:220-234; when the store raises, the one
\* bucket popped before the INSERT is gone), handle_offline (server.py:238-250).
ApplyCall(m, c) ==
    IF c.op = "ingest"
    THEN LET old == IF "line1" \in DOMAIN m.lines THEN m.lines["line1"] ELSE NewLine(c.ts)
             r   == Ingest(old, c.pulses, c.duration, c.ts, settings)
         IN  Maps([l \in DOMAIN m.lines \cup {"line1"} |->
                      IF l = "line1" THEN r.line ELSE m.lines[l]],
                  Record(m.minute_map, "line1", c.ts, r.smoothed))
    ELSE IF c.op = "flush"
    THEN Maps(m.lines,
              IF c.raised
              THEN [k \in DOMAIN m.minute_map \ {c.key} |-> m.minute_map[k]]
              ELSE FlushMap(m.minute_map, now))
    ELSE Maps([l \in DOMAIN m.lines |->
                  IF l = "line1" THEN HandleOffline(m.lines[l]).line ELSE m.lines[l]],
              m.minute_map)

\* the thread t with its position, call and what it read changed
Moved(t, pc, call, seen) ==
    [threads EXCEPT !.pc[t] = pc, !.call[t] = call, !.seen[t] = seen]

\* a request thread reaches agent.ingest(line_id, p, dur, None)
Arrive(t) ==
    /\ t \in Workers /\ threads.pc[t] = "idle"
    /\ \E k \in PacketKinds :
           threads' = Moved(t, "wait",
                            [op |-> "ingest", thread |-> t, pulses |-> k[1],
                             duration |-> k[2], ts |-> now],
                            threads.seen[t])
    /\ UNCHANGED <<now, settings, lines, minute_map, status, status_log,
                   minute_stats, ret, holdRun, sent, rq, samples>>

\* the background thread reaches agent.flush_minutes(); the store may refuse
\* the INSERT of the first closed bucket
Wake ==
    /\ threads.pc["bg"] = "idle"
    /\ \E raised \in BOOLEAN, key \in Matured(minute_map, now) \cup {<<"line1", -60>>} :
           /\ raised => key \in Matured(minute_map, now)
           /\ ~raised => key = <<"line1", -60>>
           /\ threads' = Moved("bg", "wait",
                               [op |-> "flush", thread |-> "bg", raised |-> raised,
                                key |-> key],
                               threads.seen["bg"])
    /\ UNCHANGED <<now, settings, lines, minute_map, status, status_log,
                   minute_stats, ret, holdRun, sent, rq, samples>>

\* `with self.lock:` is entered
Acquire(t) ==
    /\ threads.pc[t] = "wait"
    /\ CanEnter(threads.lock)
    /\ threads' = [threads EXCEPT !.lock = t, !.pc[t] = "in"]
    /\ UNCHANGED <<now, settings, lines, minute_map, status, status_log,
                   minute_stats, ret, holdRun, sent, rq, samples>>

\* the body reads the maps
Load(t) ==
    /\ threads.pc[t] = "in"
    /\ threads' = Moved(t, "loaded", threads.call[t], Maps(lines, minute_map))
    /\ UNCHANGED <<now, settings, lines, minute_map, status, status_log,
                   minute_stats, ret, holdRun, sent, rq, samples>>

\* what the call hands back to its caller: ingest returns (smoothed,
\* state_changed, new_state) (server.py:216), handle_offline returns whether the
\* line was stopped (server.py:250), flush_minutes returns nothing
Returned(seen, c) ==
    IF c.op = "ingest"
    THEN LET old == IF "line1" \in DOMAIN seen.lines
                    THEN seen.lines["line1"] ELSE NewLine(c.ts)
             r   == Ingest(old, c.pulses, c.duration, c.ts, settings)
         IN  [state_changed |-> r.state_changed, new_state |-> r.new_state] @@ c
    ELSE IF c.op = "offline"
    THEN [changed |-> "line1" \in DOMAIN seen.lines
                      /\ HandleOffline(seen.lines["line1"]).changed] @@ c
    ELSE c

\* the body writes what it computed from what it read
Store(t) ==
    /\ threads.pc[t] = "loaded"
    /\ \E c \in {threads.call[t]}, seen \in {threads.seen[t]} :
       \E result \in {ApplyCall(seen, c)}, back \in {Returned(seen, c)} :
       \E gone \in {DOMAIN seen.minute_map \ DOMAIN result.minute_map},
          key \in {<<"line1", MinuteOf(now)>>} :
           /\ lines' = IF c.op = "flush" THEN lines
                       ELSE [l \in DOMAIN lines \cup DOMAIN result.lines |->
                                IF l = "line1" THEN result.lines[l] ELSE lines[l]]
           /\ minute_map' =
                  IF c.op = "ingest"
                  THEN [k \in DOMAIN minute_map \cup {key} |->
                           IF k = key THEN result.minute_map[k] ELSE minute_map[k]]
                  ELSE [k \in DOMAIN minute_map \ gone |-> minute_map[k]]
           /\ minute_stats' =
                  IF c.op = "flush" /\ ~c.raised
                  THEN FlushStats(minute_stats, seen.minute_map, now)
                  ELSE minute_stats
           /\ threads' = Moved(t, "exit", back, seen)
    /\ UNCHANGED <<now, settings, status, status_log, ret, holdRun, sent, rq, samples>>

\* the `with` block is left, by return or by the exception of the store
Release(t) ==
    /\ threads.pc[t] = "exit"
    /\ LET c == threads.call[t]
           raised == c.op = "flush" /\ c.raised
       IN  threads' = [threads EXCEPT
               !.lock = Unlock(@, raised),
               !.pc[t] = "after",
               !.completed = @ \cup {[k \in {"op", "thread", "pulses", "duration", "ts",
                                             "raised", "key"} \cap DOMAIN c |-> c[k]]}]
    /\ UNCHANGED <<now, settings, lines, minute_map, status, status_log,
                   minute_stats, ret, holdRun, sent, rq, samples>>

\* handle_data after agent.ingest returned: the status row and the log
\* (server.py:606-634)
Respond(t) ==
    /\ t \in Workers /\ threads.pc[t] = "after"
    /\ LET c == threads.call[t]
       IN  /\ status' = [status EXCEPT !["line1"] =
                  [ lastPacketTime |-> now,
                    lastPulseTime  |-> IF c.pulses > 0 THEN now ELSE @.lastPulseTime,
                    isRunning      |-> IF c.state_changed THEN c.new_state ELSE @.isRunning ]]
           /\ status_log' = [status_log EXCEPT !["line1"] =
                  IF c.state_changed
                  THEN Append(@, [timestamp |-> now, isRunning |-> c.new_state,
                                  productName |-> settings.products["line1"]])
                  ELSE @]
    /\ threads' = [threads EXCEPT !.pc[t] = "done"]
    /\ UNCHANGED <<now, settings, lines, minute_map, minute_stats, ret, holdRun,
                   sent, rq, samples>>

\* background_worker after flush_minutes: an exception ends the cycle
\* (server.py:976); otherwise the rows of status are read and handle_offline
\* is called for line1 if its row has timed out (server.py:952-961)
Sweep ==
    /\ threads.pc["bg"] = "after" /\ threads.call["bg"].op = "flush"
    /\ threads' =
           IF ~threads.call["bg"].raised /\ TimedOut(status["line1"], now, settings)
           THEN Moved("bg", "wait", [op |-> "offline", thread |-> "bg"], threads.seen["bg"])
           ELSE [threads EXCEPT !.pc["bg"] = "done"]
    /\ UNCHANGED <<now, settings, lines, minute_map, status, status_log,
                   minute_stats, ret, holdRun, sent, rq, samples>>

\* background_worker after handle_offline returned (server.py:962-975)
Log ==
    /\ threads.pc["bg"] = "after" /\ threads.call["bg"].op = "offline"
    /\ LET changed == threads.call["bg"].changed
       IN  /\ status' = IF changed THEN [status EXCEPT !["line1"].isRunning = 0] ELSE status
           /\ status_log' = IF changed
                  THEN [status_log EXCEPT !["line1"] =
                           Append(@, [timestamp |-> now, isRunning |-> 0,
                                      productName |-> settings.products["line1"]])]
                  ELSE status_log
    /\ threads' = [threads EXCEPT !.pc["bg"] = "done"]
    /\ UNCHANGED <<now, settings, lines, minute_map, minute_stats, ret, holdRun,
                   sent, rq, samples>>

\* The state the threads start from: line1 sent a fast packet at time 1 and
\* runs (delayStart = 0); it is now time 91, the bucket of minute 0 is closed
\* and the row of line1 has timed out.
FirstPacket == Ingest(NewLine(1), 1, 60000, 1, QuickStartSettings)

ConcInit ==
    /\ now = 91
    /\ settings = QuickStartSettings
    /\ lines = [l \in {"line1"} |-> FirstPacket.line]
    /\ minute_map = Record(<< >>, "line1", 1, FirstPacket.smoothed)
    /\ status = [l \in LineIds |->
           IF l = "line1" THEN [isRunning |-> 1, lastPulseTime |-> 1, lastPacketTime |-> 1]
           ELSE [isRunning |-> 0, lastPulseTime |-> 0, lastPacketTime |-> 0]]
    /\ status_log = [l \in LineIds |->
           IF l = "line1"
           THEN <<[timestamp |-> 1, isRunning |-> 1, productName |-> ""]>>
           ELSE << >>]
    /\ minute_stats = << >>
    /\ ret = [op |-> "data", line |-> "line1", ts |-> 1, smoothed |-> FirstPacket.smoothed,
              state_changed |-> TRUE, new_state |-> 1]
    /\ holdRun = [l \in LineIds |-> NoRun]
    /\ sent = 1
    /\ samples = Record(<< >>, "line1", 1, FirstPacket.smoothed)
    /\ rq = NoRequest
    /\ threads = [ lock |-> "free",
                   pc |-> [t \in Threads |-> "idle"],
                   call |-> [t \in Threads |-> NoCall],
                   seen |-> [t \in Threads |-> Maps(<< >>, << >>)],
                   completed |-> {} ]

\* the steps around a call of the agent
CallStep(t) ==
    Arrive(t) \/ Acquire(t) \/ Load(t) \/ Store(t) \/ Release(t) \/ Respond(t)

ConcNext == (\E t \in Threads : CallStep(t)) \/ Wake \/ Sweep \/ Log

SpecConc == ConcInit /\ [][ConcNext]_vars

\* what a call can hand back, whatever the maps hold
Outcomes(c) ==
    IF c.op = "ingest"
    THEN {[state_changed |-> b, new_state |-> n] @@ c : b \in BOOLEAN, n \in {0, 1}}
    ELSE IF c.op = "offline" THEN {[changed |-> b] @@ c : b \in BOOLEAN}
    ELSE {c}

\* what Store(t) does to the thread: the body of the call runs to its end.
\* Under SpecConc a step is a Leave(t) step exactly when it is a Store(t) step.
Leave(t) ==
    /\ threads.pc[t] = "loaded"
    /\ \E back \in Outcomes(threads.call[t]) :
           threads' = Moved(t, "exit", back, threads.seen[t])

\* the steps the interpreter can schedule, as changes of the threads
Scheduled ==
    \/ \E t \in Threads :
           Arrive(t) \/ Acquire(t) \/ Load(t) \/ Leave(t) \/ Release(t) \/ Respond(t)
    \/ Wake \/ Sweep \/ Log

\* The interpreter does not stop while some thread can take a step: the bodies
\* of the calls have no loop that waits and no I/O other than the store's
\* INSERT, which returns or raises (server.py:147-250). Each thread takes
\* finitely many steps, so every thread that can run eventually does.
SpecConcFair == SpecConc /\ WF_threads(Scheduled)

-----------------------------------------------------------------------------
(* Statements about the state detector and the watchdog *)

\* the timestamp ingest uses for a request
TsOf(given, tsv) == IF given THEN tsv ELSE now

\* the start of the run an ingest at ts belongs to
RunStart(l, ts) == IF holdRun[l].on THEN holdRun[l].t0 ELSE ts

\* P holds of every /data request: P(l, ts) is about the step of the request
\* for line l with timestamp ts
EveryData(P(_, _)) ==
    \A l \in LineIds, k \in PacketKinds, given \in BOOLEAN, tsv \in PacketTs :
        HandleData(l, k[1], k[2], given, tsv) => P(l, TsOf(given, tsv))

\* C1: a STOPPED line whose ingests since the one at t0 all have a smoothed
\* speed >= V_START stays STOPPED (stateChanged false) on every ingest with
\* ts - t0 < delayStart and becomes RUNNING (stateChanged true) on the first
\* ingest with ts - t0 >= delayStart.
C1_Step(l, ts) ==
    (LineOf(l, ts).lastState = 0 /\ GeTenths(ret'.smoothed, settings.V_START))
        => IF ts - RunStart(l, ts) >= settings.delayStart
           THEN ret'.state_changed /\ ret'.new_state = 1 /\ lines'[l].lastState = 1
           ELSE ~ret'.state_changed /\ ret'.new_state = 0 /\ lines'[l].lastState = 0

C1_StartsAfterDelayStart == [][EveryData(C1_Step)]_vars

\* C2: a RUNNING line becomes STOPPED exactly on the first ingest with
\* ts - holdStop >= delayStop, holdStop being the timestamp of the first
\* ingest of the current unbroken run of ingests with smoothed speed
\* <= V_STOP; an ingest with smoothed speed > V_STOP clears holdStop and
\* leaves the line RUNNING.
C2_Step(l, ts) ==
    LineOf(l, ts).lastState = 1
        => IF LeTenths(ret'.smoothed, settings.V_STOP)
           THEN IF ts - RunStart(l, ts) >= settings.delayStop
                THEN ret'.state_changed /\ ret'.new_state = 0 /\ lines'[l].lastState = 0
                ELSE ~ret'.state_changed /\ lines'[l].lastState = 1
           ELSE ~ret'.state_changed /\ lines'[l].lastState = 1 /\ lines'[l].holdStop = 0

C2_StopsAfterDelayStop == [][EveryData(C2_Step)]_vars

\* C3: on a STOPPED line an ingest with smoothed speed < V_START leaves
\* holdStart unset (0) and the line STOPPED; the next ingest with smoothed
\* speed >= V_START finds holdStart unset and starts the timer at its own
\* timestamp: the line is STOPPED with holdStart = ts afterwards, and switches
\* to RUNNING at once only when delayStart is 0.  Time above V_START before
\* the gap does not count: a line never starts before delayStart has passed
\* since the first ingest of the current unbroken run.
C3_Step(l, ts) ==
    LineOf(l, ts).lastState = 0
        => /\ ~GeTenths(ret'.smoothed, settings.V_START)
                => /\ lines'[l].holdStart = 0
                   /\ lines'[l].lastState = 0
                   /\ ~ret'.state_changed
           /\ (GeTenths(ret'.smoothed, settings.V_START) /\ LineOf(l, ts).holdStart = 0)
                => IF settings.delayStart <= 0
                   THEN lines'[l].lastState = 1
                   ELSE lines'[l].lastState = 0 /\ lines'[l].holdStart = ts
           /\ ret'.state_changed
                => /\ GeTenths(ret'.smoothed, settings.V_START)
                   /\ ts - RunStart(l, ts) >= settings.delayStart

C3_GapResetsHoldStart == [][EveryData(C3_Step)]_vars

\* C3 witness: a STOPPED line counts again from its last packet, after a run
\* above V_START that a slower packet broke
C3_Witness ==
    \E l \in DOMAIN lines :
        /\ ret.op = "data" /\ ret.line = l
        /\ lines[l].lastState = 0
        /\ holdRun[l].on /\ holdRun[l].afterGap
        /\ lines[l].holdStart = ret.ts
        /\ \E i \in 1..Len(lines[l].messages) : lines[l].messages[i].ts < ret.ts

\* C4: ingest returns stateChanged = true exactly when lastState after the
\* call differs from lastState before it; the returned newState is the
\* lastState after the call, and after a change both hold timers are 0.
C4_Step(l, ts) ==
    /\ ret'.state_changed <=> (lines'[l].lastState # LineOf(l, ts).lastState)
    /\ ret'.new_state = lines'[l].lastState
    /\ ret'.state_changed => (lines'[l].holdStart = 0 /\ lines'[l].holdStop = 0)

C4_ChangeReportedOncePerCrossing == [][EveryData(C4_Step)]_vars

\* C4 witness: an ingest has just reported a change, and an earlier change of
\* the same line is in the log
C4_Witness ==
    /\ ret.op = "data" /\ ret.state_changed
    /\ Len(status_log[ret.line]) >= 2

\* the line is RUNNING in the agent
Running(l) == l \in DOMAIN lines /\ lines[l].lastState = 1

\* C5: a sweep at time now forces a line to STOPPED and reports it changed if
\* and only if the line is RUNNING and now - lastPacketTime > offlineTimeout;
\* such a line is left with an empty window, speed 0 and both timers 0.
C5_Sweep ==
    \A l \in LineIds :
        LET due == /\ Running(l)
                   /\ status[l].lastPacketTime # 0
                   /\ now - status[l].lastPacketTime > settings.offlineTimeout
        IN  /\ (l \in ret'.changed) <=> due
            /\ (Running(l) /\ ~Running(l)') <=> due
            /\ due => /\ lines'[l].messages = << >>
                      /\ lines'[l].smoothedSpeed = Zero
                      /\ lines'[l].holdStart = 0
                      /\ lines'[l].holdStop = 0
                      /\ lines'[l].lastState = 0

Idle(l) == l \notin DOMAIN lines \/ lines[l].lastState = 0

\* C6, as claimed: a sweep leaves the runtime state of every line that is
\* STOPPED or never sent a packet unchanged, does not report it and logs no
\* StatusEvent for it.
C6_Untouched ==
    \A l \in LineIds :
        Idle(l) => /\ (l \in DOMAIN lines) <=> (l \in DOMAIN lines')
                   /\ l \in DOMAIN lines => lines'[l] = lines[l]
                   /\ l \notin ret'.changed
                   /\ status_log'[l] = status_log[l]

C6_SweepLeavesIdleLinesUntouched == [][Background => C6_Untouched]_vars

\* C6, amended: a sweep never reports such a line, logs no StatusEvent for
\* it and leaves its lastState and its row of table status as they are.  A
\* line that never sent a packet stays unknown; a STOPPED line keeps its
\* whole runtime state unless it has timed out, and then its window is
\* emptied, its speed zeroed and both hold timers cleared.
C6_Amended ==
    \A l \in LineIds :
        Idle(l) => /\ l \notin ret'.changed
                   /\ status_log'[l] = status_log[l]
                   /\ status'[l] = status[l]
                   /\ (l \in DOMAIN lines) <=> (l \in DOMAIN lines')
                   /\ l \in DOMAIN lines =>
                        lines'[l] =
                            IF TimedOut(status[l], now, settings)
                            THEN [lines[l] EXCEPT !.messages = << >>,
                                                  !.smoothedSpeed = Zero,
                                                  !.holdStart = 0, !.holdStop = 0]
                            ELSE lines[l]

C6_SweepKeepsIdleLinesStopped == [][Background => C6_Amended]_vars

\* C6 witness: a sweep has reset a timed-out STOPPED line without reporting
\* it, next to a line that never sent a packet
C6_Witness ==
    /\ ret.op = "background"
    /\ ret.changed = {}
    /\ \E l \in ret.swept :
           /\ l \in DOMAIN lines
           /\ lines[l].messages = << >>
           /\ lines[l].lastState = 0
           /\ status_log[l] = << >>
    /\ \E l \in LineIds : l \notin DOMAIN lines /\ status[l].lastPacketTime = 0

-----------------------------------------------------------------------------
(* Statements about the reconstruction *)

Duration(seg) == seg.end - seg.start

\* the days of the finished request
DoneDays == IF rq.phase = "done" THEN {rq.days[i] : i \in 1..Len(rq.days)} ELSE {}

\* the segments cover [a, b) without gap or overlap
Tiles(segs, a, b) ==
    /\ segs # << >>
    /\ segs[1].start = a
    /\ segs[Len(segs)].end = b
    /\ \A i \in 1..(Len(segs) - 1) : segs[i + 1].start = segs[i].end

RECURSIVE TotalDuration(_)
TotalDuration(segs) ==
    IF segs = << >> THEN 0 ELSE Duration(Head(segs)) + TotalDuration(Tail(segs))

\* C7: the merged segments of every day tile the day: the first starts at
\* dayStart, each next one starts where the previous one ends, the last ends
\* at dayEnd, and work seconds + idle seconds = dayEnd - dayStart.
C7_MergedSegmentsTileDay ==
    \A day \in DoneDays :
        /\ Tiles(day.merged, day.day_start, day.day_end)
        /\ TotalDuration(day.merged) = day.day_end - day.day_start
        /\ day.run_sec + day.down_sec = day.day_end - day.day_start

\* C7 witness: a report whose merge pass folded a short segment into the
\* segment before it, on a day with at least three segments
C7_Witness ==
    /\ rq.phase = "done" /\ rq.kind = "report"
    /\ \E day \in DoneDays :
           /\ Len(day.segments) >= 3
           /\ Len(day.merged) < Len(day.segments)
           /\ \E i \in 1..Len(day.segments) :
                  Duration(day.segments[i]) > 0 /\ Duration(day.segments[i]) < ShortSec

\* C8: after the merge pass no two adjacent merged segments have the same
\* state.  Stated of the chart reconstruction (the report also closes segments
\* where only the label changes) and of days whose segments are all non-empty.
C8_MergedSegmentsMaximal ==
    rq.phase = "done" /\ rq.kind = "chart" =>
        \A day \in DoneDays :
            (\A i \in 1..Len(day.segments) : Duration(day.segments[i]) > 0)
                => \A i \in 1..(Len(day.merged) - 1) :
                       day.merged[i].state # day.merged[i + 1].state

\* C9: every segment, before and after the merge pass, has end > start.
C9_SegmentsNonEmpty ==
    \A day \in DoneDays :
        /\ \A i \in 1..Len(day.segments) : day.segments[i].end > day.segments[i].start
        /\ \A i \in 1..Len(day.merged) : day.merged[i].end > day.merged[i].start

\* the seconds of the segments that have state st and are short (or not)
RECURSIVE SecondsOf(_, _, _)
SecondsOf(segs, st, short) ==
    IF segs = << >> THEN 0
    ELSE (IF Head(segs).state = st /\ ((Duration(Head(segs)) < ShortSec) <=> short)
          THEN Duration(Head(segs)) ELSE 0)
         + SecondsOf(Tail(segs), st, short)

\* C10: no segment is dropped by the merge pass: a segment shorter than 60 s
\* counts with its whole duration for the opposite state, a segment of 60 s
\* or more for its own, so the work seconds of a day are the run segments of
\* 60 s or more plus the idle segments shorter than 60 s, and the idle seconds
\* the reverse.
C10_ShortSegmentsCountOpposite ==
    rq.phase = "done" /\ rq.kind = "chart" =>
        \A day \in DoneDays :
            /\ day.run_sec = SecondsOf(day.segments, 1, FALSE) + SecondsOf(day.segments, 0, TRUE)
            /\ day.down_sec = SecondsOf(day.segments, 0, FALSE) + SecondsOf(day.segments, 1, TRUE)

\* C10 witness: a chart day with a segment of exactly 60 s and a shorter run
C10_Witness ==
    /\ rq.phase = "done" /\ rq.kind = "chart"
    /\ \E day \in DoneDays :
           /\ \E i \in 1..Len(day.segments) : Duration(day.segments[i]) = ShortSec
           /\ \E i \in 1..Len(day.segments) :
                  /\ day.segments[i].state = 1
                  /\ Duration(day.segments[i]) > 0
                  /\ Duration(day.segments[i]) < ShortSec
           /\ day.run_sec > 0 /\ day.down_sec > 0

-----------------------------------------------------------------------------
(* Statements about the minute buckets *)

\* C11: a flush at wall-clock time now removes from the bucket map and
\* persists exactly the buckets whose minute is < floor(now/60)*60; every
\* bucket of the current minute or a later one stays in the map with its sum
\* and count unchanged, and no other persisted minute row changes.
C11_Flush ==
    LET closed == {k \in DOMAIN minute_map : k[2] < (now \div 60) * 60}
    IN  /\ ret'.flushed = closed
        /\ DOMAIN minute_map' = DOMAIN minute_map \ closed
        /\ \A k \in DOMAIN minute_map' : minute_map'[k] = minute_map[k]
        /\ DOMAIN minute_stats' = DOMAIN minute_stats \cup closed
        /\ \A k \in closed :
               minute_stats'[k].n * minute_map[k].sum.d * minute_map[k].count
                   = minute_map[k].sum.n * minute_stats'[k].d
        /\ \A k \in DOMAIN minute_stats \ closed : minute_stats'[k] = minute_stats[k]

C11_FlushTakesClosedBuckets == [][Background => C11_Flush]_vars

\* C11 witness: a cycle that persisted a closed bucket and left a bucket of
\* the current minute in the map
C11_Witness ==
    /\ ret.op = "background"
    /\ ret.flushed # {}
    /\ \E k \in DOMAIN minute_map : k[2] = ret.now_minute /\ minute_map[k].count > 0
    /\ \A k \in ret.flushed : k \in DOMAIN minute_stats /\ k \notin DOMAIN minute_map

\* C12: flush is idempotent: of two cycles with no ingest in between and the
\* same current minute only the first produces output; the second persists
\* nothing, removes nothing and leaves the bucket map and the persisted
\* minute rows unchanged.
C12_SecondFlush ==
    (ret.op = "background" /\ ret.now_minute = (now \div 60) * 60)
        => /\ ret'.flushed = {}
           /\ minute_map' = minute_map
           /\ minute_stats' = minute_stats

C12_FlushIsIdempotent == [][Background => C12_SecondFlush]_vars

\* C12 witness: a second cycle in the minute in which the first one persisted
\* a bucket, with a bucket of the current minute still waiting
C12_Witness ==
    /\ ret.op = "background" /\ ret.again
    /\ ret.flushed = {}
    /\ minute_stats # << >>
    /\ minute_map # << >>

-----------------------------------------------------------------------------
(* Statements about the packet window and the smoothed speed *)

\* P holds of every accepted packet of line1: P(k, ts) is about the step that
\* ingests the packet of kind k with timestamp ts
EveryPacket(P(_, _)) ==
    \A k \in AcceptedKinds, tsv \in AnyOrderTs :
        HandleData("line1", k[1], k[2], TRUE, tsv) => P(k, tsv)

\* C13: for all packet sequences accepted for ingest with durationMs > 0 the
\* smoothedSpeed returned by ingest and stored for the line is >= 0 in every
\* reachable state.
C13_SmoothedSpeedNonNegative ==
    /\ \A l \in DOMAIN lines : lines[l].smoothedSpeed.n >= 0
    /\ ret.op = "data" => ret.smoothed.n >= 0

\* C14: after every ingest, with timestamps arriving in any order, the window
\* of the line contains the packet just ingested and only packets with
\* timestamp >= T - windowSec, T being the timestamp of the packet just
\* ingested, which is also lastPacket.
C14_Step(k, ts) ==
    LET line == lines'["line1"]
        msgs == line.messages
    IN  /\ msgs # << >>
        /\ msgs[Len(msgs)] = [pulses |-> k[1], duration |-> k[2], ts |-> ts]
        /\ \A i \in 1..Len(msgs) : msgs[i].ts >= ts - settings.windowSec
        /\ line.lastPacket = ts

C14_WindowHoldsOnlyFreshPackets == [][EveryPacket(C14_Step)]_vars

\* C14 witness: a packet older than one already in the window was ingested
\* after an earlier packet had been pruned
C14_Witness ==
    /\ ret.op = "data" /\ "line1" \in DOMAIN lines
    /\ LET msgs == lines["line1"].messages
       IN  /\ Len(msgs) >= 2
           /\ msgs[Len(msgs)].ts < msgs[1].ts
           /\ Len(msgs) < sent

\* C15: the smoothedSpeed returned by ingest is (sum of pulses) / (sum of
\* durationMs / 1000) * 60 over exactly the packets retained in the window,
\* i.e. smoothedSpeed * sum(durationMs) = 60000 * sum(pulses), and 0 when the
\* retained durations sum to 0.
C15_Step(k, ts) ==
    LET msgs == lines'["line1"].messages
        sp   == ret'.smoothed
    IN  /\ sp = lines'["line1"].smoothedSpeed
        /\ IF SumField(msgs, "duration") = 0
           THEN sp.n = 0
           ELSE sp.n * SumField(msgs, "duration") = 60000 * SumField(msgs, "pulses") * sp.d

C15_SpeedIsWindowAverage == [][EveryPacket(C15_Step)]_vars

\* C15 witness: a speed over two retained packets of different rates, after
\* an older packet was pruned
C15_Witness ==
    /\ ret.op = "data" /\ "line1" \in DOMAIN lines
    /\ LET msgs == lines["line1"].messages
       IN  /\ Len(msgs) = 2 /\ sent = 3
           /\ msgs[1].pulses * msgs[2].duration # msgs[2].pulses * msgs[1].duration
           /\ ret.smoothed.n > 0

\* C17: when persisting a minute bucket fails during a flush, the bucket's
\* aggregate is not lost: no step takes a bucket out of the map unless its
\* average is persisted, so its sum and count stay available for a later
\* flush cycle.
C17_Kept(k) ==
    \/ k \in DOMAIN minute_map' /\ minute_map'[k].count >= minute_map[k].count
    \/ k \in DOMAIN minute_stats' /\ minute_stats'[k] = Average(minute_map[k])

C17_FailedFlushKeepsBucket == [][\A k \in DOMAIN minute_map : C17_Kept(k)]_vars

-----------------------------------------------------------------------------
(* Statements about the settings *)

\* C18: after a settings save each of windowSec, V_START, V_STOP, delayStart,
\* delayStop and offlineTimeout equals the submitted value when that value is
\* a non-negative number, and otherwise (missing, non-numeric or negative)
\* keeps the value it had before the save.
C18_Save(data) ==
    \A f \in Fields :
        IF data[f].kind = "num" /\ (data[f].inf \/ data[f].tenths >= 0)
        THEN Stored(f, settings') = Num(data[f].inf, data[f].tenths)
        ELSE settings'[f] = settings[f]

C18_SaveTakesValidValues == [][\A data \in Forms : SaveSettings(data) => C18_Save(data)]_vars

-----------------------------------------------------------------------------
(* Statements about repeated reconstruction *)

\* the rows a call at time t reads from the rows `log`
Fetched(log, t) == Fetch(log, t - Days * DaySec, t)

-----------------------------------------------------------------------------
(* Statements about concurrent callers *)

\* the maps the threads started from
StartMaps == Maps([l \in {"line1"} |-> FirstPacket.line],
                  Record(<< >>, "line1", 1, FirstPacket.smoothed))

\* what the maps can be after the calls, made one after the other in any order
RECURSIVE SerialOutcomes(_, _)
SerialOutcomes(m, calls) ==
    IF calls = {} THEN {m}
    ELSE UNION {SerialOutcomes(ApplyCall(m, c), calls \ {c}) : c \in calls}

\* no thread is inside a call
Quiet == \A t \in Threads : threads.pc[t] \notin {"in", "loaded", "exit"}

\* C16: each ingest, flush and sweep call is atomic with respect to the others:
\* under any interleaving of the request threads and the background thread,
\* whenever no call is in progress the per-line state map and the bucket map
\* are what some serial order of the completed calls leaves (no lost update:
\* two concurrent ingests for one line and one minute leave a bucket of count
\* 2 and a window of 2 packets).
C16_CallsAreSerializable ==
    Quiet => Maps(lines, minute_map) \in SerialOutcomes(StartMaps, threads.completed)

\* C16 witness: both request threads were waiting for the lock while the
\* background thread held it, and every call has completed: two ingests, the
\* flush and the handle_offline
C16_Witness ==
    /\ \A t \in Threads : threads.pc[t] = "done"
    /\ Cardinality(threads.completed) = 4
    /\ \E k \in DOMAIN minute_map : minute_map[k].count = 2

\* C20: no core operation blocks indefinitely: every call that waits for the
\* lock eventually gets it, and every call that holds the lock eventually
\* finishes and releases it, also when it raises.
C20_EveryCallerGetsTheLock ==
    \A t \in Threads :
        /\ (threads.pc[t] = "wait") ~> (threads.lock = t)
        /\ (threads.lock = t) ~> (threads.lock # t /\ threads.pc[t] \in {"after", "done", "wait"})

\* C20 witness: the flush raised, the lock is free again and a request thread
\* that waited for it is inside its call
C20_Witness ==
    /\ threads.call["bg"].op = "flush" /\ threads.call["bg"].raised
    /\ threads.pc["bg"] = "done"
    /\ \E t \in Workers : threads.lock = t /\ threads.pc[t] = "loaded"

-----------------------------------------------------------------------------
(* Statements about the report and the two reconstructions *)

\* the scan of handle_report before and after the i-th event of a day that
\* started in state st holding the label lab
ReportAt(evs, i, st, lab, day_start) ==
    [ ev     |-> evs[i],
      before |-> ReportScan(SubSeq(evs, 1, i - 1), st, day_start, lab, << >>),
      after  |-> ReportScan(SubSeq(evs, 1, i), st, day_start, lab, << >>) ]

\* the days of a finished report with the state and the label each began with
ReportStarts ==
    IF rq.phase = "done" /\ rq.kind = "report"
    THEN LET from_ts == rq.t - 30 * DaySec
         IN  { [ day   |-> rq.days[d],
                 evs   |-> DayEvents(Fetch(rq.log, from_ts, rq.t),
                                     rq.days[d].day_start, rq.days[d].day_end),
                 state |-> IF d = 1 THEN rq.initial ELSE rq.days[d - 1].state,
                 label |-> IF d = 1 THEN lab ELSE rq.days[d - 1].product ] :
               d \in 1..Len(rq.days),
               lab \in InitialLabels(rq.log, from_ts, settings.products["line1"]) }
    ELSE {}

\* the event carries a label (a row older than the column carries none) and
\* it is not the label held
NewLabel(ev, held) == ev.productName # NULL /\ ev.productName # held

\* C21: in the report, an event whose isRunning equals the current state never
\* changes the state, and closes a segment if and only if its product label
\* differs from the label held; every closed segment carries the label that
\* was held before the event that closed it.
C21_SameStateEventClosesOnNewLabel ==
    \A s \in ReportStarts : \A i \in 1..Len(s.evs) :
        LET at == ReportAt(s.evs, i, s.state, s.label, s.day.day_start)
            closed == Len(at.after.segments) = Len(at.before.segments) + 1
        IN  /\ Len(at.after.segments) \in {Len(at.before.segments),
                                           Len(at.before.segments) + 1}
            /\ closed => at.after.segments[Len(at.after.segments)].product
                             = at.before.prev_product
            /\ at.ev.isRunning = at.before.state =>
                   /\ at.after.state = at.before.state
                   /\ closed <=> NewLabel(at.ev, at.before.prev_product)

-----------------------------------------------------------------------------
(* Statements about what an ingest records *)

\* the bucket of line l and minute m before the step, empty when there is none
BucketOf(l, m) ==
    IF <<l, m>> \in DOMAIN minute_map THEN minute_map[<<l, m>>]
    ELSE [sum |-> Zero, count |-> 0]

\* C22: every ingest, whatever the outcome of state detection, adds exactly
\* one sample (count + 1, sum + smoothedSpeed) to exactly the bucket keyed
\* (lineId, floor(ts/60)*60) and to no other bucket; hence every bucket in the
\* map has count >= 1 and a minute that is a multiple of 60.
C22_Step(l, ts) ==
    \E m \in {ts - (ts % 60)} :
        /\ DOMAIN minute_map' = DOMAIN minute_map \cup {<<l, m>>}
        /\ minute_map'[<<l, m>>].count = BucketOf(l, m).count + 1
        /\ minute_map'[<<l, m>>].sum = RatAdd(BucketOf(l, m).sum, lines'[l].smoothedSpeed)
        /\ \A k \in DOMAIN minute_map \ {<<l, m>>} : minute_map'[k] = minute_map[k]

C22_IngestAddsOneSample ==
    [][/\ EveryData(C22_Step)
       /\ \A k \in DOMAIN minute_map' :
              minute_map'[k].count >= 1 /\ k[2] % 60 = 0]_vars

\* C22 witness: an ingest that left the state of its line unchanged has just
\* added the second sample to a bucket, beside a bucket of another minute
C22_Witness ==
    /\ ret.op = "data" /\ ~ret.state_changed
    /\ <<ret.line, MinuteOf(ret.ts)>> \in DOMAIN minute_map
    /\ minute_map[<<ret.line, MinuteOf(ret.ts)>>].count = 2
    /\ \E k \in DOMAIN minute_map : k[1] = ret.line /\ k[2] # MinuteOf(ret.ts)

\* C23: the two reconstructions agree: for the same events of a line, the
\* same state at the start of the day and the same day window, the chart and
\* the report yield the same run seconds and idle seconds, also when the log
\* holds events that repeat the state or carry product labels.  Stated of
\* every whole day of a finished report, on which get_daily_work_idle's loop
\* body is run with the state the report began the day with.
C23_ChartAndReportAgree ==
    \A s \in ReportStarts :
        s.day.day_end = s.day.day_start + DaySec =>
            LET chart == DailyDay(Fetch(rq.log, rq.t - 30 * DaySec, rq.t),
                                  s.state, s.day.day_start)
            IN  /\ chart.run_sec = s.day.run_sec
                /\ chart.down_sec = s.day.down_sec

\* C24: in get_daily_work_idle the state carried into the first reported day
\* is the isRunning of the latest event of the line with a timestamp before
\* that day's start (STOPPED when there is none), also when events lie between
\* now - days*86400 and the start of the first day.
C24_CarryInIsLatestEarlierState ==
    rq.phase = "done" /\ rq.kind = "chart" =>
        rq.days[1].segments[1].state \in InitialStates(rq.log, rq.days[1].day_start)

-----------------------------------------------------------------------------
(* Statements about the runtime state of a line *)

\* the hold timers of the line fit its state
TimersFit(line) ==
    /\ line.lastState \in {0, 1}
    /\ line.holdStart # 0 => line.lastState = 0
    /\ line.holdStop # 0 => line.lastState = 1
    /\ ~(line.holdStart # 0 /\ line.holdStop # 0)

\* a line first heard of starts STOPPED: its first ingest reports a change
\* exactly when it leaves the line RUNNING
C25_Step(l, ts) ==
    l \notin DOMAIN lines => (ret'.state_changed <=> lines'[l].lastState = 1)

\* C25: in every reachable state of a line holdStart is set (non-zero) only
\* while the line is STOPPED, holdStop only while it is RUNNING, the two are
\* never set together, and lastState is 0 or 1 (0 for a newly seen line).
C25_HoldTimersFitState ==
    [][/\ EveryData(C25_Step)
       /\ \A l \in DOMAIN lines' : TimersFit(lines'[l])]_vars

\* C25 witness: an ingest has just set holdStop on a RUNNING line that another
\* ingest had started before
C25_Witness ==
    /\ ret.op = "data" /\ ~ret.state_changed
    /\ lines[ret.line].lastState = 1
    /\ lines[ret.line].holdStop = ret.ts /\ ret.ts # 0
    /\ lines[ret.line].holdStart = 0
    /\ status_log[ret.line] # << >>

-----------------------------------------------------------------------------
(* Statements about the status table and the log under concurrent callers *)

\* C26: under any interleaving of /data requests and the background watchdog
\* the log of each line alternates: in append order consecutive events of one
\* line have different isRunning values, and the first is a run event.
C26_LogAlternates ==
    \A l \in LineIds :
        /\ status_log[l] # << >> => status_log[l][1].isRunning = 1
        /\ \A i \in 1..(Len(status_log[l]) - 1) :
               status_log[l][i].isRunning # status_log[l][i + 1].isRunning

\* no /data request and no background cycle is in progress
AtRest == threads = NoThreads \/ \A t \in Threads : threads.pc[t] \in {"idle", "done"}

\* lastState of the line in the agent, STOPPED for a line it has not heard of
AgentState(l) == IF l \in DOMAIN lines THEN lines[l].lastState ELSE 0

\* isRunning of the last event logged for the line, STOPPED when there is none
LoggedState(l) ==
    IF status_log[l] = << >> THEN 0 ELSE status_log[l][Len(status_log[l])].isRunning

\* C27: whenever no /data request and no watchdog sweep is in progress, the
\* persisted status.isRunning of each line equals the agent's lastState of the
\* line and the isRunning of the line's last logged event, under every
\* interleaving of requests and the background thread.
C27_StatusAgreesWithAgent ==
    AtRest => \A l \in LineIds :
                  /\ status[l].isRunning = AgentState(l)
                  /\ LoggedState(l) = AgentState(l)

-----------------------------------------------------------------------------
(* Statements about the persisted minute rows *)

\* C28: after any sequence of ingests and flushes the value persisted for
\* (lineId, minute) is the average of all the smoothed-speed samples ingested
\* for that line with timestamps in that minute, also when some of them were
\* ingested after the minute had been flushed once.  Stated after each
\* background cycle, when no sample of a persisted minute is waiting in the map.
C28_Flushed ==
    \A k \in DOMAIN minute_stats' :
        k \notin DOMAIN minute_map' => minute_stats'[k] = Average(samples'[k])

C28_PersistedIsAverageOfAllSamples == [][Background => C28_Flushed]_vars

-----------------------------------------------------------------------------
(* Statements about what the operations leave alone *)

\* an ingest for line l at ts: every other line and every other bucket is as
\* before
C29_Step(l, ts) ==
    /\ DOMAIN lines' = DOMAIN lines \cup {l}
    /\ \A x \in DOMAIN lines \ {l} : lines'[x] = lines[x]
    /\ DOMAIN minute_map' \ DOMAIN minute_map \subseteq {<<l, ts - (ts % 60)>>}
    /\ \A k \in DOMAIN minute_map \ {<<l, ts - (ts % 60)>>} :
           k \in DOMAIN minute_map' /\ minute_map'[k] = minute_map[k]

\* a background cycle: the flush changes no line and the handle_offline calls
\* change only the lines they are made for, keep lastPacket and change no
\* bucket
C29_Cycle ==
    /\ DOMAIN lines' = DOMAIN lines
    /\ \A l \in DOMAIN lines :
           /\ l \notin ret'.swept => lines'[l] = lines[l]
           /\ lines'[l].lastPacket = lines[l].lastPacket
    /\ \A k \in DOMAIN minute_map' :
           k \in DOMAIN minute_map /\ minute_map'[k] = minute_map[k]

\* C29: operations only change what they own: ingest for line A leaves every
\* other line and every bucket other than (A, floor(ts/60)*60) unchanged;
\* handle_offline for a line leaves that line's lastPacket, all other lines
\* and all buckets unchanged; flush leaves all per-line state unchanged.
C29_OperationsChangeOnlyTheirOwn ==
    [][EveryData(C29_Step) /\ (Background => C29_Cycle)]_vars

\* C29 witness: a background cycle has just stopped one line while another
\* line runs on and a bucket stays in the map
C29_Witness ==
    /\ ret.op = "background" /\ ret.changed # {}
    /\ \E l \in DOMAIN lines \ ret.swept : lines[l].lastState = 1
    /\ minute_map # << >>

-----------------------------------------------------------------------------
(* Statements about the watchdog over time *)

\* the last instant of the model's clock
LastClock == CHOOSE t \in Clock : \A u \in Clock : u <= t

\* what a background cycle logs: one stop event for each RUNNING line it
\* forces, nothing for any other line
C30_Cycle ==
    \A l \in LineIds :
        /\ l \in ret'.changed => Running(l) /\ ~Running(l)'
        /\ status_log'[l] =
               IF l \in ret'.changed
               THEN Append(status_log[l], [timestamp |-> now, isRunning |-> 0,
                                           productName |-> settings.products[l]])
               ELSE status_log[l]

\* the line runs, its last request came at t0 and the clock can pass the timeout
Silent(l, t0) ==
    /\ Running(l)
    /\ status[l].lastPacketTime = t0
    /\ t0 + settings.offlineTimeout < LastClock

\* C30: a RUNNING line that stops sending packets is eventually forced to
\* STOPPED by the watchdog, and one forced-stop event is logged for the
\* silence: later sweeps report no change for the line until a new packet
\* makes it RUNNING again.
C30_SilentLineIsStoppedOnce ==
    /\ [][Background => C30_Cycle]_vars
    /\ \A l \in LineIds, t0 \in Clock :
           Silent(l, t0) ~> (~Running(l) \/ status[l].lastPacketTime # t0)

\* C30 witness: the watchdog stopped a silent line, and the cycle after it
\* reported no change and logged nothing more
C30_Witness ==
    /\ ret.op = "background" /\ ret.again /\ ret.changed = {}
    /\ \E l \in ret.swept :
           /\ ~Running(l)
           /\ Len(status_log[l]) = 2
           /\ status_log[l][2].isRunning = 0
           /\ status_log[l][2].timestamp = now

-----------------------------------------------------------------------------
(* Statements about the buckets over time *)

\* the bucket is in the map and the clock can pass the end of its minute
Closing(k) == k \in DOMAIN minute_map /\ k[2] + 60 <= LastClock

\* C31: every minute bucket created by an ingest is eventually persisted and
\* removed from the bucket map once the wall clock has moved past the end of
\* its minute; after a completed flush at time now the map holds no bucket
\* with a minute < floor(now/60)*60.
C31_EveryBucketIsPersisted ==
    /\ [][Background => \A k \in DOMAIN minute_map' : k[2] >= now - (now % 60)]_vars
    /\ \A l \in LineIds, m \in {MinuteOf(t) : t \in Clock \cup PacketTs} :
           Closing(<<l, m>>) ~> (/\ <<l, m>> \notin DOMAIN minute_map
                                 /\ <<l, m>> \in DOMAIN minute_stats)

=============================================================================
